---------------------------- MODULE Spec2Model ----------------------------
(***************************************************************************)
(* License-key backend of src/api/auth.js: applications, keys and the      *)
(* support list live in a relational datastore; every request runs the     *)
(* handler, whose statements between two awaited queries are one atomic    *)
(* step.  Requests of different slots interleave at the queries.           *)
(*                                                                         *)
(* Strings whose shape matters (key strings, prefixes, device_limit) are   *)
(* sequences of one-character strings.  Time is in milliseconds.  API keys *)
(* ('api_' + 16 random base-36 digits) are numbered in order of issue: a   *)
(* random draw is taken never to repeat an API key issued before.          *)
(***************************************************************************)
EXTENDS Integers, Sequences, FiniteSets, TLC

VARIABLES applications, keys, supports, now, nextApi, nextKeyId, req, last, hist, boot

vars == <<applications, keys, supports, now, nextApi, nextKeyId, req, last, hist, boot>>
db == <<applications, keys, supports>>

---------------------------------------------------------------------------
(* Bounds of the model *)
MaxApi == 2
MaxKeyId == 2
MaxTicks == 2
MaxQuotaApi == 12
MaxInvocations == 4

(* Program constants *)
MAIN_ADMIN_ID == "techdavisk007"
MAX_APPS_FOR_SUPPORT == 10
MsPerDay == 86400000
KeyLen == 6
chars == <<"A","B","C","D","E","F","G","H","I","J","K","L","M","N","O","P","Q","R",
           "S","T","U","V","W","X","Y","Z","0","1","2","3","4","5","6","7","8","9">>

(* Inputs *)
Procs == {1, 2}
Users == {MAIN_ADMIN_ID, "u1", "u2"}
SupportInputs == {MAIN_ADMIN_ID, "u2"}
AppNames == {"Foo"}
HWIDs == {"H1", "H2", "H3"}
SysInfos == {"win"}
Prefixes == {<<"P","R","O">>}
DaysInputs == {1}
(* undefined, as parseInt reads it: the string "undefined" *)
Undefined == <<"u","n","d","e","f","i","n","e","d">>
DeviceLimitInputs ==
  {Undefined, <<"2">>, <<"0">>, <<"-","1">>, <<"x">>, <<"1"," ","p","c">>}
(* SQL NULL of a text column, of the hwid column and of a timestamp column *)
NULL == "NULL"
NullText == <<>>
NullTs == -1
NaN == [ok |-> FALSE, v |-> 0]
Num(n) == [ok |-> TRUE, v |-> n]

Range(s) == {s[i] : i \in DOMAIN s}

---------------------------------------------------------------------------
(* parseInt: leading white space, an optional sign, then the longest run   *)
(* of decimal digits; NaN when there is none.                              *)
DigitVal(c) ==
  CASE c = "0" -> 0 [] c = "1" -> 1 [] c = "2" -> 2 [] c = "3" -> 3 [] c = "4" -> 4
    [] c = "5" -> 5 [] c = "6" -> 6 [] c = "7" -> 7 [] c = "8" -> 8 [] c = "9" -> 9
    [] OTHER -> -1

RECURSIVE SkipSpace(_)
SkipSpace(s) == IF s # <<>> /\ Head(s) = " " THEN SkipSpace(Tail(s)) ELSE s

RECURSIVE Digits(_, _, _)
Digits(s, acc, seen) ==
  IF s # <<>> /\ DigitVal(Head(s)) >= 0
    THEN Digits(Tail(s), acc * 10 + DigitVal(Head(s)), TRUE)
    ELSE IF seen THEN Num(acc) ELSE NaN

parseInt(v) ==
  LET t == SkipSpace(v) IN
    IF t # <<>> /\ Head(t) = "-"
      THEN LET m == Digits(Tail(t), 0, FALSE) IN IF m.ok THEN Num(0 - m.v) ELSE NaN
    ELSE IF t # <<>> /\ Head(t) = "+" THEN Digits(Tail(t), 0, FALSE)
    ELSE Digits(t, 0, FALSE)

(* JavaScript's a || b for a number or NaN a and a number b *)
OrElse(a, b) == IF ~a.ok \/ a.v = 0 THEN b ELSE a.v

(* JSON text of an array of strings, as its tokens; and its parse *)
RECURSIVE JSON_stringify(_)
JSON_stringify(a) ==
  IF a = <<>> THEN <<"[", "]">>
  ELSE IF Len(a) = 1 THEN <<"[", a[1], "]">>
  ELSE <<"[", a[1], ",">> \o Tail(JSON_stringify(Tail(a)))

JSON_parse(t) ==
  LET inner == SubSeq(t, 2, Len(t) - 1)
      n == (Len(inner) + 1) \div 2
  IN [i \in 1..n |-> inner[2 * i - 1]]

(* generateKey: 6 draws from chars; the set of its possible results *)
generateKey == [1..KeyLen -> Range(chars)]

(* The template literal of create_key.  It holds no ${...} substitution:   *)
(* \( and \) are the characters ( and ), {prefix} and {generateKey()} are  *)
(* literal text, so its value does not depend on the request.              *)
KeyTemplate(prefix) ==
  <<"(", " ", "{", "p", "r", "e", "f", "i", "x", "}", "-", " ", ")",
    "{", "g", "e", "n", "e", "r", "a", "t", "e", "K", "e", "y", "(", ")", "}">>

---------------------------------------------------------------------------
(* Requests and responses *)
NoKey == <<>>
KeyInputs == {KeyTemplate(<<>>)}

Idle == [op |-> "idle", pc |-> "idle", uid |-> "", api |-> 0, name |-> "",
         key |-> NoKey, hwids |-> <<>>]

NoResp == [op |-> "none", uid |-> "", api |-> 0, name |-> "", key |-> NoKey,
           hwid |-> "", status |-> 0, success |-> FALSE, message |-> "", rows |-> {}]

(* jsonResponse(statusCode, {success, message, ...}) for request r *)
jsonResponse(r, statusCode, success, message) ==
  [op |-> r.op, uid |-> r.uid, api |-> r.api, name |-> r.name, key |-> r.key,
   hwid |-> "", status |-> statusCode, success |-> success, message |-> message,
   rows |-> {}]

KeyOps == {"create_key", "delete_key", "ban_key", "check_key", "reset_hwid", "list_keys"}

(* API keys a request can carry: those issued so far, and 0, a string that *)
(* is no application's API key                                             *)
ApiInputs == 1 .. (nextApi - 1)

NoHist == [accepted |-> {}, overlap |-> FALSE, reset |-> FALSE, banned |-> FALSE, raced |-> FALSE]

---------------------------------------------------------------------------
(* Queries *)
checkIfAdmin(user_id) == user_id = MAIN_ADMIN_ID

(* SELECT COUNT( * ) FROM applications WHERE created_by = $1 *)
getUserAppCount(user_id) ==
  Cardinality({a \in applications : a.created_by = user_id})

(* SELECT * FROM supports WHERE user_id = $1: has rows *)
IsSupport(user_id) == user_id \in supports

(* SELECT * FROM applications WHERE api_key = $1 AND created_by = $2: has rows *)
OwnsApp(api_key, user_id) ==
  \E a \in applications : a.api_key = api_key /\ a.created_by = user_id

checkAppPermissionOwnerOnly(user_id, api_key) ==
  IF checkIfAdmin(user_id) THEN [hasPermission |-> TRUE, isAdmin |-> TRUE]
  ELSE [hasPermission |-> OwnsApp(api_key, user_id), isAdmin |-> FALSE]

(* checkAppPermission run on one datastore state *)
checkAppPermission(user_id, api_key) ==
  IF checkIfAdmin(user_id) THEN [hasPermission |-> TRUE, isAdmin |-> TRUE]
  ELSE IF IsSupport(user_id) THEN [hasPermission |-> TRUE, isAdmin |-> FALSE]
  ELSE [hasPermission |-> OwnsApp(api_key, user_id), isAdmin |-> FALSE]

AppsByName(name) == {a \in applications : a.name = name}
AppsByApi(api_key) == {a \in applications : a.api_key = api_key}
(* SELECT * FROM keys WHERE key = $1 AND api = $2 *)
KeysBy(key, api) == {k \in keys : k.key = key /\ k.api = api}
KeysOfApi(api) == {k \in keys : k.api = api}

---------------------------------------------------------------------------
(* Ghost bookkeeping per key row: the HWIDs accepted since creation or the *)
(* last reset, whether validate_key requests on the row ever overlapped,   *)
(* whether the row was ever reset, whether it was ever banned, whether it  *)
(* was created while a validate_key that had read an earlier row of the    *)
(* same key string and application was about to write.  Evaluated on the   *)
(* state after the step.                                                   *)
PendingUpdates(k) ==
  {p \in Procs : req'[p].op = "validate_key" /\ req'[p].pc = "update"
                   /\ req'[p].api = k.api /\ req'[p].key = k.key}

InFlightValidates(k) ==
  {p \in Procs : req'[p].op = "validate_key" /\ req'[p].api = k.api /\ req'[p].key = k.key}

Track(h) ==
  [i \in {k.id : k \in keys'} |->
     LET old == IF i \in DOMAIN h THEN h[i]
                ELSE [NoHist EXCEPT !.raced = \E k \in keys' : k.id = i /\ PendingUpdates(k) # {}]
     IN IF \E k \in keys' : k.id = i /\ Cardinality(InFlightValidates(k)) >= 2
          THEN [old EXCEPT !.overlap = TRUE]
          ELSE old]

(* A response is handed to the transport before the next query runs: the   *)
(* state in which a response is produced shows it in last.                 *)
Deliver ==
  /\ last # NoResp
  /\ last' = NoResp
  /\ UNCHANGED <<applications, keys, supports, now, nextApi, nextKeyId, req, hist, boot>>

At(p, op, pc) == last = NoResp /\ req[p].op = op /\ req[p].pc = pc

(* A request takes the first free slot: which slot serves it is immaterial *)
Free(p) == /\ last = NoResp
           /\ req[p] = Idle
           /\ \A q \in Procs : req[q] = Idle => p <= q

Respond(p, resp) == /\ req' = [req EXCEPT ![p] = Idle]
                    /\ last' = resp
                    /\ boot' = boot

Continue(p, r) == /\ req' = [req EXCEPT ![p] = r]
                  /\ last' = NoResp
                  /\ boot' = boot

---------------------------------------------------------------------------
(* The module-level state of the process (pool: the Pool object held, 0    *)
(* for null; pools: Pool objects created; isInitialized) and of the        *)
(* database (schema: the three tables exist), with two counters:           *)
(* initRuns, the runs of initializeTables, and queries, the queries issued *)
(* by the actions of the requests.                                         *)
Cold(schema) == [pool |-> 0, pools |-> 0, isInitialized |-> FALSE, schema |-> schema,
                 initRuns |-> 0, queries |-> 0, invocations |-> 0]

(* A process that has served a request: getPool has returned a pool.  The  *)
(* requests below run in such a process, on a database with the tables.    *)
Warm == [pool |-> 1, pools |-> 1, isInitialized |-> TRUE, schema |-> TRUE,
         initRuns |-> 0, queries |-> 0, invocations |-> 0]

Init ==
  /\ applications = {}
  /\ keys = {}
  /\ supports = {MAIN_ADMIN_ID}
  /\ now = 0
  /\ nextApi = 1
  /\ nextKeyId = 1
  /\ req = [p \in Procs |-> Idle]
  /\ last = NoResp
  /\ hist = <<>>
  /\ boot = Warm

(* Time passes *)
Tick ==
  /\ last = NoResp
  /\ now < MaxTicks * MsPerDay
  /\ now' = now + MsPerDay
  /\ last' = NoResp
  /\ UNCHANGED <<applications, keys, supports, nextApi, nextKeyId, req, hist, boot>>

---------------------------------------------------------------------------
(* create_app *)
CreatingApps == {p \in Procs : req[p].op = "create_app"}

(* getUserAppCount's query and the quota test that follows it *)
CreateAppCount(p, app_name, ca_uid, maxApi) ==
  /\ Free(p)
  /\ nextApi + Cardinality(CreatingApps) <= maxApi
  /\ LET r == [Idle EXCEPT !.op = "create_app", !.pc = "insert",
                           !.uid = ca_uid, !.name = app_name]
         ca_isAdmin == checkIfAdmin(ca_uid)
         ca_count == getUserAppCount(ca_uid)
     IN IF ~ca_isAdmin /\ ca_count >= MAX_APPS_FOR_SUPPORT
          THEN Respond(p, jsonResponse(r, 200, FALSE, "Limit 10 apps reached"))
          ELSE Continue(p, r)
  /\ UNCHANGED <<applications, keys, supports, now, nextApi, nextKeyId>>
  /\ hist' = Track(hist)

(* INSERT INTO applications; a unique violation (23505) is 'App exists' *)
CreateAppInsert(p) ==
  /\ At(p, "create_app", "insert")
  /\ LET r == req[p]
         ca_api == nextApi
     IN IF AppsByName(r.name) # {}
          THEN /\ Respond(p, jsonResponse(r, 200, FALSE, "App exists"))
               /\ UNCHANGED <<applications, nextApi>>
          ELSE /\ applications' = applications \cup
                      {[name |-> r.name, api_key |-> ca_api, created_by |-> r.uid]}
               /\ nextApi' = nextApi + 1
               /\ Respond(p, [jsonResponse(r, 200, TRUE, "App created")
                                EXCEPT !.api = ca_api])
  /\ UNCHANGED <<keys, supports, now, nextKeyId>>
  /\ hist' = Track(hist)

---------------------------------------------------------------------------
(* delete_app *)
DeleteAppSelect(p, da_name, da_uid) ==
  /\ Free(p)
  /\ LET da_app == AppsByName(da_name)
         r == [Idle EXCEPT !.op = "delete_app", !.uid = da_uid, !.name = da_name]
     IN IF da_app = {}
          THEN Respond(p, jsonResponse(r, 200, FALSE, "App not found"))
          ELSE LET row == CHOOSE a \in da_app : TRUE
               IN Continue(p, [r EXCEPT !.api = row.api_key,
                                 !.pc = IF checkIfAdmin(da_uid) THEN "write" ELSE "perm_sup"])
  /\ UNCHANGED <<applications, keys, supports, now, nextApi, nextKeyId>>
  /\ hist' = Track(hist)

ExecDeleteAppNoCascade(p, r) ==
  /\ applications' = applications \ AppsByName(r.name)
  /\ Respond(p, jsonResponse(r, 200, TRUE, "App deleted"))
  /\ UNCHANGED <<keys, supports, nextKeyId>>
  /\ hist' = Track(hist)

(* DELETE FROM applications WHERE name = $1, ON DELETE CASCADE to keys *)
ExecDeleteApp(p, r) ==
  /\ applications' = applications \ AppsByName(r.name)
  /\ keys' = {k \in keys : \A a \in AppsByName(r.name) : k.api # a.api_key}
  /\ Respond(p, jsonResponse(r, 200, TRUE, "App deleted"))
  /\ UNCHANGED <<supports, nextKeyId>>
  /\ hist' = Track(hist)

---------------------------------------------------------------------------
(* checkAppPermission, query by query *)
Deny(p, r) == Respond(p, jsonResponse(r, 403, FALSE, "No permission"))

(* SELECT * FROM supports WHERE user_id = $1 (delete_app reaches it after  *)
(* its own SELECT; the key operations issue it as their first query)       *)
PermSupport(p) ==
  /\ last = NoResp /\ req[p].pc = "perm_sup"
  /\ Continue(p, [req[p] EXCEPT !.pc = IF IsSupport(req[p].uid) THEN "write" ELSE "perm_own"])
  /\ UNCHANGED <<applications, keys, supports, now, nextApi, nextKeyId>>
  /\ hist' = Track(hist)

(* SELECT * FROM applications WHERE api_key = $1 AND created_by = $2 *)
PermOwner(p) ==
  /\ last = NoResp /\ req[p].pc = "perm_own"
  /\ IF OwnsApp(req[p].api, req[p].uid)
       THEN Continue(p, [req[p] EXCEPT !.pc = "write"])
       ELSE Deny(p, req[p])
  /\ UNCHANGED <<applications, keys, supports, now, nextApi, nextKeyId>>
  /\ hist' = Track(hist)

---------------------------------------------------------------------------
(* Key rows *)

(* The row INSERT INTO keys (key, api, prefix, expires_at, device_limit)   *)
(* stores, the other columns at the schema's defaults                      *)
InsertRow(id, key, api, prefix, expires_at, device_limit) ==
  [id |-> id, key |-> key, api |-> api, prefix |-> prefix,
   expires_at |-> expires_at, hwid |-> NullText, banned |-> FALSE, used |-> FALSE,
   device_limit |-> device_limit, system_info |-> NULL, first_used |-> NullTs]

(* UPDATE keys SET banned = true *)
BanRow(k) == [k EXCEPT !.banned = TRUE]

ResetRowKeepsHwid(k) ==
  [k EXCEPT !.used = FALSE, !.system_info = NULL, !.first_used = NullTs]

(* UPDATE keys SET hwid = NULL, used = false, system_info = NULL, first_used = NULL *)
ResetRow(k) ==
  [k EXCEPT !.hwid = NullText, !.used = FALSE, !.system_info = NULL, !.first_used = NullTs]

(* COALESCE(first_used, CURRENT_TIMESTAMP) *)
Coalesce(a, b) == IF a # NullTs THEN a ELSE b

BindRowStampsAgain(k, hwidText, system_info) ==
  [k EXCEPT !.hwid = hwidText, !.used = TRUE, !.system_info = system_info,
            !.first_used = now]

(* UPDATE keys SET hwid = $1, used = true, system_info = $2,               *)
(*   first_used = COALESCE(first_used, CURRENT_TIMESTAMP)                  *)
BindRow(k, hwidText, system_info) ==
  [k EXCEPT !.hwid = hwidText, !.used = TRUE, !.system_info = system_info,
            !.first_used = Coalesce(@, now)]

(* create_key's three computed values *)
KeyString(prefix) == KeyTemplate(prefix)
Expires(days) == now + days * MsPerDay
DeviceLimit(device_limit) == OrElse(parseInt(device_limit), 1)

---------------------------------------------------------------------------
(* The key operations' own query, issued once permission is granted *)
CreatingKeys == {p \in Procs : req[p].op = "create_key"}

ServerError(p, r) == Respond(p, jsonResponse(r, 500, FALSE, "Server error"))

(* INSERT INTO keys: a duplicate key string (23505) or an api that is no   *)
(* application's (23503) throws to the handler's catch                     *)
ExecCreateKey(p, r, body) ==
    LET ck_key == KeyString(body.prefix)
        ck_expires == Expires(body.days)
        ck_limit == DeviceLimit(body.device_limit)
    IN /\ IF (\E k \in keys : k.key = ck_key) \/ AppsByApi(r.api) = {}
            THEN /\ ServerError(p, r)
                 /\ UNCHANGED <<keys, nextKeyId>>
            ELSE /\ keys' = keys \cup
                       {InsertRow(nextKeyId, ck_key, r.api, body.prefix, ck_expires, ck_limit)}
                 /\ nextKeyId' = nextKeyId + 1
                 /\ Respond(p, [jsonResponse(r, 200, TRUE, "Key created")
                                  EXCEPT !.key = ck_key])
       /\ UNCHANGED <<applications, supports>>
       /\ hist' = Track(hist)

(* DELETE FROM keys WHERE key = $1 AND api = $2 RETURNING * *)
ExecDeleteKey(p, r) ==
  /\ keys' = keys \ KeysBy(r.key, r.api)
  /\ IF KeysBy(r.key, r.api) # {}
       THEN Respond(p, jsonResponse(r, 200, TRUE, "Key deleted"))
       ELSE Respond(p, jsonResponse(r, 200, FALSE, "Key not found"))
  /\ UNCHANGED <<applications, supports, nextKeyId>>
  /\ hist' = Track(hist)

(* UPDATE keys SET banned = true WHERE key = $1 AND api = $2 RETURNING * *)
ExecBanKey(p, r) ==
  /\ keys' = (keys \ KeysBy(r.key, r.api)) \cup {BanRow(k) : k \in KeysBy(r.key, r.api)}
  /\ IF KeysBy(r.key, r.api) # {}
       THEN Respond(p, jsonResponse(r, 200, TRUE, "Key banned"))
       ELSE Respond(p, jsonResponse(r, 200, FALSE, "Key not found"))
  /\ UNCHANGED <<applications, supports, nextKeyId>>
  /\ hist' = Track([i \in DOMAIN hist |->
                      IF \E k \in KeysBy(r.key, r.api) : k.id = i
                        THEN [hist[i] EXCEPT !.banned = TRUE]
                        ELSE hist[i]])

(* SELECT * FROM keys WHERE key = $1 AND api = $2 *)
ExecCheckKey(p, r) ==
  /\ IF KeysBy(r.key, r.api) # {}
       THEN Respond(p, [jsonResponse(r, 200, TRUE, "") EXCEPT !.rows = KeysBy(r.key, r.api)])
       ELSE Respond(p, jsonResponse(r, 200, FALSE, "Key not found"))
  /\ UNCHANGED <<applications, keys, supports, nextKeyId>>
  /\ hist' = Track(hist)

(* UPDATE keys SET hwid = NULL, ... WHERE key = $1 AND api = $2 RETURNING * *)
ExecResetHwid(p, r) ==
  /\ keys' = (keys \ KeysBy(r.key, r.api)) \cup {ResetRow(k) : k \in KeysBy(r.key, r.api)}
  /\ IF KeysBy(r.key, r.api) # {}
       THEN Respond(p, jsonResponse(r, 200, TRUE, "HWID reset"))
       ELSE Respond(p, jsonResponse(r, 200, FALSE, "Key not found"))
  /\ UNCHANGED <<applications, supports, nextKeyId>>
  /\ hist' = Track([i \in DOMAIN hist |->
                      IF \E k \in KeysBy(r.key, r.api) : k.id = i
                        THEN [hist[i] EXCEPT !.accepted = {}, !.reset = TRUE]
                        ELSE hist[i]])

(* SELECT * FROM keys WHERE api = $1 *)
ExecListKeys(p, r) ==
  /\ Respond(p, [jsonResponse(r, 200, TRUE, "") EXCEPT !.rows = KeysOfApi(r.api)])
  /\ UNCHANGED <<applications, keys, supports, nextKeyId>>
  /\ hist' = Track(hist)

Exec(p, r, body) ==
  \/ r.op = "create_key" /\ ExecCreateKey(p, r, body)
  \/ r.op = "delete_key" /\ ExecDeleteKey(p, r)
  \/ r.op = "ban_key" /\ ExecBanKey(p, r)
  \/ r.op = "check_key" /\ ExecCheckKey(p, r)
  \/ r.op = "reset_hwid" /\ ExecResetHwid(p, r)
  \/ r.op = "list_keys" /\ ExecListKeys(p, r)
  \/ r.op = "delete_app" /\ ExecDeleteApp(p, r)

(* A key operation arrives: for the super-admin checkAppPermission issues  *)
(* no query and the operation's own query is the first one; for anyone     *)
(* else the first query is the supports lookup.                            *)
KeyOpBegin(p, op, uid, api, key, body) ==
  /\ Free(p)
  /\ op = "create_key" => nextKeyId + Cardinality(CreatingKeys) <= MaxKeyId
  /\ LET r == [Idle EXCEPT !.op = op, !.uid = uid, !.api = api, !.key = key]
     IN IF checkIfAdmin(uid)
          THEN Exec(p, r, body)
          ELSE /\ Continue(p, [r EXCEPT !.pc = IF IsSupport(uid) THEN "write" ELSE "perm_own"])
               /\ UNCHANGED <<applications, keys, supports, nextKeyId>>
               /\ hist' = Track(hist)
  /\ UNCHANGED <<now, nextApi>>

(* The operation's own query of a request that holds permission *)
Write(p, body) ==
  /\ last = NoResp /\ req[p].pc = "write"
  /\ Exec(p, req[p], body)
  /\ UNCHANGED <<now, nextApi>>

---------------------------------------------------------------------------
(* validate_key *)
Includes(seq, x) == \E i \in DOMAIN seq : seq[i] = x

(* vk_k.hwid ? JSON.parse(vk_k.hwid) : [] *)
BoundHwids(k) == IF k.hwid # NullText THEN JSON_parse(k.hwid) ELSE <<>>

LimitPlusOne(k) == OrElse(Num(k.device_limit), 1) + 1

(* vk_k.device_limit || 1 *)
Limit(k) == OrElse(Num(k.device_limit), 1)

Expired(k) == now > k.expires_at

Accept(h, ids, hwid) ==
  [i \in DOMAIN h |-> IF i \in ids THEN [h[i] EXCEPT !.accepted = @ \cup {hwid}] ELSE h[i]]

(* SELECT * FROM applications WHERE api_key = $1 *)
ValidateSelectApp(p, vk_api, vk_key) ==
  /\ Free(p)
  /\ LET r == [Idle EXCEPT !.op = "validate_key", !.pc = "key", !.api = vk_api, !.key = vk_key]
     IN IF AppsByApi(vk_api) = {}
          THEN Respond(p, jsonResponse(r, 200, FALSE, "Invalid API"))
          ELSE Continue(p, r)
  /\ UNCHANGED <<applications, keys, supports, now, nextApi, nextKeyId>>
  /\ hist' = Track(hist)

DecideBoundFirst(vk_k, hwid) ==
  LET hwids == BoundHwids(vk_k)
  IN IF vk_k.banned THEN "Key banned"
     ELSE IF Includes(hwids, hwid) THEN "Valid key"
     ELSE IF Expired(vk_k) THEN "Key expired"
     ELSE IF Len(hwids) >= Limit(vk_k) THEN "Device limit reached"
     ELSE "bind"

(* The tests validate_key runs on the row it read, in the code's order:    *)
(* the response it returns, or "bind" when it goes on to the UPDATE        *)
Decide(vk_k, hwid) ==
  LET hwids == BoundHwids(vk_k)
  IN IF vk_k.banned THEN "Key banned"
     ELSE IF Expired(vk_k) THEN "Key expired"
     ELSE IF Includes(hwids, hwid) THEN "Valid key"
     ELSE IF Len(hwids) >= Limit(vk_k) THEN "Device limit reached"
     ELSE "bind"

(* SELECT * FROM keys WHERE key = $1 AND api = $2, and the tests on the row *)
ValidateSelectKey(p, hwid) ==
  /\ At(p, "validate_key", "key")
  /\ UNCHANGED <<applications, keys, supports, now, nextApi, nextKeyId>>
  /\ LET r == req[p]
         vk_kres == KeysBy(r.key, r.api)
         reply(success, message) ==
           [jsonResponse(r, 200, success, message) EXCEPT !.hwid = hwid]
     IN IF vk_kres = {}
          THEN Respond(p, reply(FALSE, "Invalid key")) /\ hist' = Track(hist)
          ELSE LET vk_k == CHOOSE k \in vk_kres : TRUE
                   d == Decide(vk_k, hwid)
               IN IF d = "bind"
                    THEN /\ Continue(p, [r EXCEPT !.pc = "update",
                                           !.hwids = Append(BoundHwids(vk_k), hwid)])
                         /\ hist' = Track(hist)
                    ELSE /\ Respond(p, reply(d = "Valid key", d))
                         /\ hist' = Track(IF d = "Valid key"
                                            THEN Accept(hist, {vk_k.id}, hwid) ELSE hist)

(* UPDATE keys SET hwid = $1, used = true, system_info = $2, first_used =  *)
(* COALESCE(...) WHERE key = $3 AND api = $4; system_info || null          *)
ValidateUpdate(p, system_info) ==
  /\ At(p, "validate_key", "update")
  /\ LET r == req[p]
         hit == KeysBy(r.key, r.api)
         hwid == r.hwids[Len(r.hwids)]
     IN /\ keys' = (keys \ hit) \cup {BindRow(k, JSON_stringify(r.hwids), system_info) : k \in hit}
        /\ Respond(p, [jsonResponse(r, 200, TRUE, "Valid key") EXCEPT !.hwid = hwid])
        /\ hist' = Track(Accept(hist, {k.id : k \in hit}, hwid))
  /\ UNCHANGED <<applications, supports, now, nextApi, nextKeyId>>

---------------------------------------------------------------------------
(* add_support, delete_support: one query each *)
AddSupport(p, as_uid, as_admin) ==
  /\ Free(p)
  /\ LET r == [Idle EXCEPT !.op = "add_support", !.uid = as_admin, !.name = as_uid]
     IN IF ~checkIfAdmin(as_admin)
          THEN /\ last' = jsonResponse(r, 403, FALSE, "Only admin can add")
               /\ UNCHANGED supports
        ELSE IF as_uid \in supports
          THEN /\ last' = jsonResponse(r, 200, FALSE, "Already support")
               /\ UNCHANGED supports
        ELSE /\ supports' = supports \cup {as_uid}
             /\ last' = jsonResponse(r, 200, TRUE, "Support added")
  /\ UNCHANGED <<applications, keys, now, nextApi, nextKeyId, req, hist, boot>>

DeleteSupportAnyUser(p, ds_uid, ds_admin) ==
  /\ Free(p)
  /\ LET r == [Idle EXCEPT !.op = "delete_support", !.uid = ds_admin, !.name = ds_uid]
     IN IF ~checkIfAdmin(ds_admin)
          THEN /\ last' = jsonResponse(r, 403, FALSE, "Only admin can delete")
               /\ UNCHANGED supports
        ELSE /\ supports' = supports \ {ds_uid}
             /\ last' = IF ds_uid \in supports
                          THEN jsonResponse(r, 200, TRUE, "Support deleted")
                          ELSE jsonResponse(r, 200, FALSE, "Not found")
  /\ UNCHANGED <<applications, keys, now, nextApi, nextKeyId, req, hist, boot>>

DeleteSupport(p, ds_uid, ds_admin) ==
  /\ Free(p)
  /\ LET r == [Idle EXCEPT !.op = "delete_support", !.uid = ds_admin, !.name = ds_uid]
     IN IF ~checkIfAdmin(ds_admin)
          THEN /\ last' = jsonResponse(r, 403, FALSE, "Only admin can delete")
               /\ UNCHANGED supports
        ELSE IF ds_uid = MAIN_ADMIN_ID
          THEN /\ last' = jsonResponse(r, 400, FALSE, "Cannot delete main admin")
               /\ UNCHANGED supports
        ELSE /\ supports' = supports \ {ds_uid}
             /\ last' = IF ds_uid \in supports
                          THEN jsonResponse(r, 200, TRUE, "Support deleted")
                          ELSE jsonResponse(r, 200, FALSE, "Not found")
  /\ UNCHANGED <<applications, keys, now, nextApi, nextKeyId, req, hist, boot>>

---------------------------------------------------------------------------
(* The fields of a request that only its last query reads are drawn when  *)
(* that query is issued: prefix, days, device_limit of create_key.         *)
NoBody == [prefix |-> <<>>, days |-> 0, device_limit |-> <<>>]
Bodies(op, limits) ==
  IF op = "create_key"
    THEN [prefix : Prefixes, days : DaysInputs, device_limit : limits]
    ELSE {NoBody}
KeyArg(op) == IF op \in {"create_key", "list_keys"} THEN {NoKey} ELSE KeyInputs

(* Key lifecycle and device binding on one application: the super-admin    *)
(* issues, bans, resets and deletes keys while clients validate.           *)
InitKey ==
  /\ applications = {[name |-> "Foo", api_key |-> 1, created_by |-> "u1"]}
  /\ keys = {}
  /\ supports = {MAIN_ADMIN_ID}
  /\ now = 0
  /\ nextApi = 2
  /\ nextKeyId = 1
  /\ req = [p \in Procs |-> Idle]
  /\ last = NoResp
  /\ hist = <<>>
  /\ boot = Warm

LifecycleOps == {"create_key", "delete_key", "ban_key", "reset_hwid"}

NextKey ==
  \/ Deliver
  \/ Tick
  \/ \E p \in Procs, op \in LifecycleOps, a \in ApiInputs :
       \E k \in KeyArg(op), b \in Bodies(op, DeviceLimitInputs) :
         KeyOpBegin(p, op, MAIN_ADMIN_ID, a, k, b)
  \/ \E p \in Procs, a \in ApiInputs, k \in KeyInputs : ValidateSelectApp(p, a, k)
  \/ \E p \in Procs, h \in HWIDs : ValidateSelectKey(p, h)
  \/ \E p \in Procs, si \in SysInfos \cup {NULL} : ValidateUpdate(p, si)

SpecKey == InitKey /\ [][NextKey]_vars

(* Administration: applications, the support list and the gated key       *)
(* operations of every kind of user                                       *)
AdminOps == {"create_key", "delete_key", "check_key", "list_keys"}

Next ==
  \/ Deliver
  \/ \E p \in Procs, n \in AppNames, u \in Users : CreateAppCount(p, n, u, MaxApi)
  \/ \E p \in Procs : CreateAppInsert(p)
  \/ \E p \in Procs, n \in AppNames, u \in Users : DeleteAppSelect(p, n, u)
  \/ \E p \in Procs : PermSupport(p)
  \/ \E p \in Procs : PermOwner(p)
  \/ \E p \in Procs, op \in AdminOps, u \in Users, a \in ApiInputs :
       \E k \in KeyArg(op), b \in Bodies(op, {Undefined}) : KeyOpBegin(p, op, u, a, k, b)
  \/ \E p \in Procs : \E b \in Bodies(req[p].op, {Undefined}) : Write(p, b)
  \/ \E p \in Procs, u \in SupportInputs, a \in Users : AddSupport(p, u, a)
  \/ \E p \in Procs, u \in SupportInputs, a \in Users : DeleteSupport(p, u, a)

Spec == Init /\ [][Next]_vars

(* The permission gate of the mutating operations *)
GateOps == {"create_key", "delete_key", "ban_key", "reset_hwid"}

NextGate ==
  \/ Deliver
  \/ \E p \in Procs, n \in AppNames, u \in Users : CreateAppCount(p, n, u, MaxApi)
  \/ \E p \in Procs : CreateAppInsert(p)
  \/ \E p \in Procs, n \in AppNames, u \in Users : DeleteAppSelect(p, n, u)
  \/ \E p \in Procs : PermSupport(p)
  \/ \E p \in Procs : PermOwner(p)
  \/ \E p \in Procs, op \in GateOps, u \in Users, a \in ApiInputs :
       \E k \in KeyArg(op), b \in Bodies(op, {Undefined}) : KeyOpBegin(p, op, u, a, k, b)
  \/ \E p \in Procs : \E b \in Bodies(req[p].op, {Undefined}) : Write(p, b)
  \/ \E p \in Procs, u \in SupportInputs, a \in Users : AddSupport(p, u, a)
  \/ \E p \in Procs, u \in SupportInputs, a \in Users : DeleteSupport(p, u, a)

SpecGate == Init /\ [][NextGate]_vars

(* The application quota: one user is one application short of the quota   *)
(* and create_app and delete_app requests overlap.                         *)
SeedNames == <<"A1", "A2", "A3", "A4", "A5", "A6", "A7", "A8", "A9">>
QuotaNames == {"Foo", "Bar"}
QuotaUsers == {MAIN_ADMIN_ID, "u1"}

InitQuota ==
  /\ applications = {[name |-> SeedNames[i], api_key |-> i, created_by |-> "u1"] :
                       i \in 1 .. (MAX_APPS_FOR_SUPPORT - 1)}
  /\ keys = {}
  /\ supports = {MAIN_ADMIN_ID}
  /\ now = 0
  /\ nextApi = MAX_APPS_FOR_SUPPORT
  /\ nextKeyId = 1
  /\ req = [p \in Procs |-> Idle]
  /\ last = NoResp
  /\ hist = <<>>
  /\ boot = Warm

NextQuota ==
  \/ Deliver
  \/ \E p \in Procs, n \in QuotaNames, u \in QuotaUsers : CreateAppCount(p, n, u, MaxQuotaApi)
  \/ \E p \in Procs : CreateAppInsert(p)
  \/ \E p \in Procs, n \in QuotaNames, u \in QuotaUsers : DeleteAppSelect(p, n, u)
  \/ \E p \in Procs : PermSupport(p)
  \/ \E p \in Procs : PermOwner(p)
  \/ \E p \in Procs : Write(p, NoBody)

SpecQuota == InitQuota /\ [][NextQuota]_vars

---------------------------------------------------------------------------
(* C1: once a key is banned its flag is never cleared while the row        *)
(* exists, and every validate_key response produced for the key and its    *)
(* application while the flag is set is the rejection 'Key banned', in     *)
(* every interleaving of ban_key with validate_key.                        *)
C1_BannedAlwaysRejected ==
  /\ \A k \in keys : hist[k.id].banned => k.banned
  /\ (last.op = "validate_key" /\ \E k \in KeysBy(last.key, last.api) : k.banned)
       => (~last.success /\ last.message = "Key banned")

(* The device-limit rule on the response of one validate_key, for the rows *)
(* in rows: not banned, not expired, validate_key requests never           *)
(* overlapped on the row.                                                  *)
DeviceLimitRule(rows) ==
  \A k \in rows :
    ( /\ last'.op = "validate_key" /\ last'.key = k.key /\ last'.api = k.api
      /\ k.id \in DOMAIN hist /\ ~hist'[k.id].overlap
      /\ ~k.banned /\ ~(now' > k.expires_at) )
    => LET acc == hist[k.id].accepted
       IN /\ (Cardinality(acc) = k.device_limit /\ last'.hwid \notin acc)
               => (~last'.success /\ last'.message = "Device limit reached")
          /\ last'.hwid \in acc => (last'.success /\ keys' = keys)

(* C2: on a key with device limit n that is not banned, not expired,       *)
(* neither reset nor deleted in between, and on which validate_key         *)
(* requests do not overlap: once n distinct HWIDs were accepted, a         *)
(* validate_key with a further HWID answers 'Device limit reached', and    *)
(* one with an accepted HWID is accepted and leaves the keys table as it   *)
(* was.  A key is known to callers by its string: "not deleted in between" *)
(* leaves out the rows created under the string of a deleted key while a   *)
(* validate_key that had read the deleted row was still to write (raced).  *)
C2_DeviceLimit ==
  [][DeviceLimitRule({k \in keys' : k.id \in DOMAIN hist /\ ~hist[k.id].raced})]_vars

(* The same rule with the raced rows included does not hold: the pending   *)
(* write puts the deleted row's HWIDs and its own into the new row.        *)
DeviceLimitAcrossRecreation == [][DeviceLimitRule(keys')]_vars

C2_Witness ==
  /\ last.op = "validate_key" /\ last.message = "Device limit reached"
  /\ \E k \in KeysBy(last.key, last.api) :
       /\ k.device_limit = 2 /\ ~k.banned /\ ~Expired(k)
       /\ ~hist[k.id].overlap /\ ~hist[k.id].raced
       /\ Cardinality(hist[k.id].accepted) = 2
       /\ last.hwid \notin hist[k.id].accepted

(* C3: in every reachable state the bound-HWID set of every stored key    *)
(* holds at most device_limit HWIDs.                                       *)
C3_BoundWithinLimit ==
  \A k \in keys : Len(BoundHwids(k)) <= k.device_limit

---------------------------------------------------------------------------
(* validate_key(hwid, system_info) run without interruption on row k: its  *)
(* response and the row it leaves                                          *)
ValidateOn(k, hwid, system_info) ==
  LET d == Decide(k, hwid)
  IN IF d = "bind"
       THEN [success |-> TRUE, message |-> "Valid key",
             row |-> BindRow(k, JSON_stringify(Append(BoundHwids(k), hwid)), system_info)]
       ELSE [success |-> d = "Valid key", message |-> d, row |-> k]

(* What the claim compares: the response, the bound HWIDs, the used flag,  *)
(* system-info, and whether first-used is set                              *)
Observed(o) ==
  [success |-> o.success, message |-> o.message, hwid |-> o.row.hwid, used |-> o.row.used,
   system_info |-> o.row.system_info, first_used_set |-> o.row.first_used # NullTs]

(* The never-used key create_key would store for the same application,     *)
(* expiration and device limit                                             *)
FreshLike(k) == InsertRow(k.id, k.key, k.api, k.prefix, k.expires_at, k.device_limit)

SameAsFresh(k) ==
  \A h \in HWIDs, si \in SysInfos \cup {NULL} :
    Observed(ValidateOn(ResetRow(k), h, si)) = Observed(ValidateOn(FreshLike(k), h, si))

(* C4 as claimed: for every key state and HWID, reset_hwid followed by     *)
(* validate_key behaves as validate_key on a freshly created key of the    *)
(* same application, expiration and device limit.                          *)
C4_ResetThenValidate == \A k \in keys : SameAsFresh(k)

(* C4, amended: the same for every key that is not banned.                 *)
C4_ResetThenValidateUnbanned == \A k \in keys : ~k.banned => SameAsFresh(k)

(* A key that was bound, then reset, then validated again *)
C4_Witness ==
  /\ last.op = "validate_key" /\ last.success
  /\ \E k \in KeysBy(last.key, last.api) :
       /\ ~k.banned /\ hist[k.id].reset /\ hist[k.id].accepted = {last.hwid}
       /\ k.hwid = JSON_stringify(<<last.hwid>>)

---------------------------------------------------------------------------
(* prefix, "-", then KeyLen characters that generateKey can produce *)
WellFormedKey(key, prefix) ==
  /\ Len(key) = Len(prefix) + 1 + KeyLen
  /\ SubSeq(key, 1, Len(prefix)) = prefix
  /\ key[Len(prefix) + 1] = "-"
  /\ \A i \in (Len(prefix) + 2) .. Len(key) : key[i] \in Range(chars)

(* C9: every key string that create_key stores and returns starts with    *)
(* the prefix of the request and continues with 6 characters of the       *)
(* alphabet A-Z, 0-9 (PRO gives PRO-XXXXXX); the string returned is the    *)
(* one stored.                                                             *)
C9_KeyFormat ==
  /\ \A k \in keys : WellFormedKey(k.key, k.prefix)
  /\ (last.op = "create_key" /\ last.success) => \E k \in keys : k.key = last.key

(* C10: every key stored by create_key has a device limit of at least 1.   *)
C10_DeviceLimitAtLeastOne ==
  \A k \in keys : k.device_limit >= 1

---------------------------------------------------------------------------
(* API keys are never issued twice, so an issued API key without an        *)
(* application is the key of an application that delete_app removed.       *)
Deleted(api) == api \in 1 .. (nextApi - 1) /\ AppsByApi(api) = {}

NoKeyOfDeletedApp == \A k \in keys : AppsByApi(k.api) # {}

NotFound(resp) ==
  \/ resp.op = "check_key" /\ ~resp.success /\ resp.message = "Key not found"
  \/ resp.op = "list_keys" /\ resp.success /\ resp.rows = {}

(* C5 as claimed: after delete_app succeeded for the application of API    *)
(* key A no key row with api = A remains, and every check_key with A       *)
(* answers 'Key not found' and every list_keys with A an empty list,       *)
(* whoever asks.                                                           *)
C5_DeletedAppHasNoKeys ==
  /\ NoKeyOfDeletedApp
  /\ (last.op \in {"check_key", "list_keys"} /\ Deleted(last.api)) => NotFound(last)

(* A check_key or list_keys on a deleted application's API key answers.    *)
(* The super-admin's request answers as it arrives; any other request      *)
(* answers from its owner lookup (pc "perm_own", reached when the supports *)
(* lookup found nothing) or from its own query (pc "write").               *)
C5_Step ==
  /\ ( /\ last = NoResp /\ last'.op \in {"check_key", "list_keys"} /\ Deleted(last'.api)
       /\ checkIfAdmin(last'.uid) ) => NotFound(last')
  /\ \A p \in Procs :
       ( /\ req[p].op \in {"check_key", "list_keys"} /\ Deleted(req[p].api)
         /\ req'[p] = Idle )
       => IF req[p].pc = "write"
            THEN NotFound(last')
            ELSE /\ req[p].pc = "perm_own"
                 /\ last'.status = 403 /\ ~last'.success /\ last'.message = "No permission"
  /\ \A p \in Procs :
       ( /\ req[p] = Idle /\ req'[p].op \in {"check_key", "list_keys"}
         /\ IsSupport(req'[p].uid) ) => req'[p].pc = "write"

(* C5, amended: after delete_app succeeded for the application of API key  *)
(* A no key row with api = A remains; check_key with A answers 'Key not    *)
(* found' and list_keys with A an empty list when the requester is the     *)
(* super-admin or is found on the support list; any other requester, the   *)
(* former owner included, is answered 'No permission'.                     *)
C5_DeletedAppAnswers == [](NoKeyOfDeletedApp) /\ [][C5_Step]_vars

(* The former owner asks about the deleted application and is refused *)
C5_Witness ==
  /\ last.op \in {"check_key", "list_keys"} /\ Deleted(last.api)
  /\ last.uid = "u1" /\ "u1" \notin supports
  /\ last.message = "No permission"

---------------------------------------------------------------------------
(* The three rules of the resolver, first match wins *)
ResolverRules(user_id, api_key) ==
  LET res == checkAppPermission(user_id, api_key)
  IN IF user_id = MAIN_ADMIN_ID
       THEN res = [hasPermission |-> TRUE, isAdmin |-> TRUE]
     ELSE IF user_id \in supports
       THEN res = [hasPermission |-> TRUE, isAdmin |-> FALSE]
     ELSE /\ res.isAdmin = FALSE
          /\ res.hasPermission <=>
               \E a \in applications : a.api_key = api_key /\ a.created_by = user_id

(* A step that runs a query of checkAppPermission: the supports lookup of  *)
(* an arriving or waiting request, or the owner lookup                     *)
ResolverStep(p) ==
  \/ req[p].pc \in {"perm_sup", "perm_own"} /\ req'[p] # req[p]
  \/ req[p] = Idle /\ req'[p].pc \in {"write", "perm_own"}

(* C6: in every datastore state checkAppPermission(userId, apiKey) is      *)
(* {true, admin} for the super-admin; else {true, not admin} for a user on *)
(* the support list, whether or not the application exists; else it grants *)
(* exactly when an application with that API key and that owner exists;    *)
(* and its queries change no state.                                        *)
C6_Resolver ==
  /\ [](\A u \in Users, a \in 1 .. (MaxApi + 1) : ResolverRules(u, a))
  /\ [][\A p \in Procs : ResolverStep(p) => db' = db]_vars

(* A support user passes the resolver for an API key without application, *)
(* while another user's owner lookup is pending                            *)
C6_Witness ==
  /\ "u2" \in supports /\ applications # {}
  /\ \E p \in Procs : /\ req[p].uid = "u2" /\ req[p].pc = "write"
                      /\ AppsByApi(req[p].api) = {}
                      /\ checkAppPermission("u2", req[p].api).hasPermission

---------------------------------------------------------------------------
(* The resolver denies request p in this step: its owner lookup finds no   *)
(* row                                                                     *)
Denied(p) ==
  /\ req[p].op \in GateOps \cup {"delete_app"}
  /\ req[p].pc = "perm_own" /\ ~OwnsApp(req[p].api, req[p].uid)
  /\ req'[p] # req[p]

ChangedKeys == (keys' \ keys) \cup (keys \ keys')

(* C7: when the resolver denies the caller, create_key, delete_key,        *)
(* ban_key, reset_hwid and delete_app answer 'No permission' and leave     *)
(* applications, keys and supports as they were; and a user who is neither *)
(* super-admin nor ever on the support list never creates, bans, resets or *)
(* deletes a key of an application that they do not own.                   *)
C7_Step ==
  /\ \A p \in Procs :
       Denied(p) => /\ req'[p] = Idle /\ last'.op = req[p].op /\ last'.uid = req[p].uid
                    /\ last'.status = 403 /\ ~last'.success
                    /\ last'.message = "No permission"
                    /\ db' = db
  /\ \A u \in Users \ SupportInputs :
       (keys' # keys /\ last'.uid = u) => \A k \in ChangedKeys : OwnsApp(k.api, u)
C7_DenialChangesNothing == [][C7_Step]_vars

---------------------------------------------------------------------------
(* C8: in every reachable state, overlapping create_app requests included, *)
(* every user other than the super-admin owns at most                      *)
(* MAX_APPS_FOR_SUPPORT applications.                                      *)
C8_Quota ==
  \A u \in Users \ {MAIN_ADMIN_ID} : getUserAppCount(u) <= MAX_APPS_FOR_SUPPORT

---------------------------------------------------------------------------
(* C11: no request whose target application or key does not exist, or      *)
(* whose insert collides with a unique constraint, is answered through the *)
(* fatal path (status 500, 'Server error'); create_key for an API key of   *)
(* no application and create_key of an existing key string included.  The  *)
(* requests of this model carry all their fields and the datastore         *)
(* answers every query, so no other cause of a fatal answer exists here.   *)
C11_NoFatalPath ==
  ~(last.status = 500 /\ last.message = "Server error")

---------------------------------------------------------------------------
(* get_apps.  The statement is kept as its sequence of clauses, so that    *)
(* the text the handler builds is what the datastore parses.               *)
GaQuery == <<"SELECT a.*, COUNT(k.id)", "FROM applications a",
             "LEFT JOIN keys k ON a.api_key = k.api", "GROUP BY a.id",
             "ORDER BY a.created_at DESC">>
GaOwnerFilter == <<"FROM applications a", "WHERE a.created_by = $1">>

(* String.prototype.replace with a string pattern: the first occurrence *)
Replace(q, pattern, replacement) ==
  IF \E i \in DOMAIN q : q[i] = pattern
    THEN LET i == CHOOSE j \in DOMAIN q : q[j] = pattern /\ \A h \in 1 .. (j - 1) : q[h] # pattern
         IN SubSeq(q, 1, i - 1) \o replacement \o SubSeq(q, i + 1, Len(q))
    ELSE q

(* The place of a clause in a SELECT statement: joins belong to FROM and   *)
(* WHERE comes after them                                                  *)
ClauseRank(c) ==
  IF c = "SELECT a.*, COUNT(k.id)" THEN 1
  ELSE IF c = "FROM applications a" THEN 2
  ELSE IF c = "LEFT JOIN keys k ON a.api_key = k.api" THEN 3
  ELSE IF c = "WHERE a.created_by = $1" THEN 4
  ELSE IF c = "GROUP BY a.id" THEN 5
  ELSE 6

(* The datastore parses the statement; otherwise the query throws (42601)  *)
Parses(q) == \A i \in 1 .. (Len(q) - 1) : ClauseRank(q[i]) < ClauseRank(q[i + 1])

(* a.*, COALESCE(COUNT(k.id), 0) as key_count, one row per application *)
WithKeyCount(apps) ==
  {[name |-> a.name, api_key |-> a.api_key, created_by |-> a.created_by,
    key_count |-> Cardinality(KeysOfApi(a.api_key))] : a \in apps}

OwnedBy(user_id) == {a \in applications : a.created_by = user_id}

(* SELECT * FROM supports WHERE user_id = $1, then the choice of the query *)
GetAppsSupport(p, ga_uid) ==
  /\ Free(p)
  /\ LET ga_isAdmin == checkIfAdmin(ga_uid)
         ga_isSupport == IsSupport(ga_uid)
     IN Continue(p, [Idle EXCEPT !.op = "get_apps", !.uid = ga_uid,
                       !.pc = IF ~ga_isAdmin /\ ~ga_isSupport THEN "query_own" ELSE "query_all"])
  /\ UNCHANGED <<applications, keys, supports, now, nextApi, nextKeyId>>
  /\ hist' = Track(hist)

(* poolInstance.query(ga_query, ga_params) *)
GetAppsQuery(p) ==
  /\ last = NoResp /\ req[p].op = "get_apps"
  /\ LET r == req[p]
         ga_query == IF r.pc = "query_own"
                       THEN Replace(GaQuery, "FROM applications a", GaOwnerFilter)
                       ELSE GaQuery
         filtered == \E i \in DOMAIN ga_query : ga_query[i] = "WHERE a.created_by = $1"
     IN IF ~Parses(ga_query)
          THEN ServerError(p, r)
          ELSE Respond(p, [jsonResponse(r, 200, TRUE, "") EXCEPT
                             !.rows = WithKeyCount(IF filtered THEN OwnedBy(r.uid)
                                                               ELSE applications)])
  /\ UNCHANGED <<applications, keys, supports, now, nextApi, nextKeyId>>
  /\ hist' = Track(hist)

(* Listing applications while applications, keys and support grants change *)
ListingOps == {"create_key", "delete_key"}

NextApps ==
  \/ Deliver
  \/ \E p \in Procs, n \in AppNames, u \in Users : CreateAppCount(p, n, u, MaxApi)
  \/ \E p \in Procs : CreateAppInsert(p)
  \/ \E p \in Procs, op \in ListingOps, a \in ApiInputs :
       \E k \in KeyArg(op), b \in Bodies(op, {Undefined}) :
         KeyOpBegin(p, op, MAIN_ADMIN_ID, a, k, b)
  \/ \E p \in Procs, u \in SupportInputs : AddSupport(p, u, MAIN_ADMIN_ID)
  \/ \E p \in Procs, u \in SupportInputs : DeleteSupport(p, u, MAIN_ADMIN_ID)
  \/ \E p \in Procs, u \in Users : GetAppsSupport(p, u)
  \/ \E p \in Procs : GetAppsQuery(p)

SpecApps == Init /\ [][NextApps]_vars

(* C12: get_apps answers with success and, for the super-admin and for a   *)
(* user found on the support list, every application with the number of    *)
(* keys that reference it; for any other user, exactly the applications    *)
(* that user owns, with their key counts.                                  *)
C12_GetApps ==
  [][\A p \in Procs :
       (req[p].op = "get_apps" /\ req'[p] = Idle)
       => /\ last'.status = 200 /\ last'.success
          /\ last'.rows = WithKeyCount(IF req[p].pc = "query_all"
                                         THEN applications ELSE OwnedBy(req[p].uid))]_vars

---------------------------------------------------------------------------
(* first_used of a row that stays changes in two ways only: reset_hwid     *)
(* unsets it, and a validate_key that binds an HWID sets it, to the time   *)
(* of the binding, when it was unset.                                      *)
C13_Step ==
  \A k \in keys : \A k2 \in keys' :
    k2.id = k.id =>
      /\ (k.first_used # NullTs /\ k2.first_used # k.first_used)
           => (last'.op = "reset_hwid" /\ last'.success /\ k2.first_used = NullTs)
      /\ (k.first_used = NullTs /\ k2.first_used # NullTs)
           => /\ last'.op = "validate_key" /\ last'.success
              /\ k2.first_used = now
              /\ Includes(BoundHwids(k2), last'.hwid)
              /\ ~Includes(BoundHwids(k), last'.hwid)

(* C13: between two consecutive resets of a key (or its creation and the   *)
(* first reset) first_used is unset as long as no HWID is bound, the first *)
(* validate_key that binds an HWID sets it, and no later successful        *)
(* validate_key changes its value.                                         *)
C13_FirstUsed ==
  /\ [](\A k \in keys : (k.first_used = NullTs) <=> (k.hwid = NullText))
  /\ [][C13_Step]_vars

(* A second HWID is bound a day after the first: first_used keeps the      *)
(* time of the first binding                                               *)
C13_Witness ==
  /\ last.op = "validate_key" /\ last.success
  /\ \E k \in KeysBy(last.key, last.api) :
       /\ Len(BoundHwids(k)) = 2 /\ BoundHwids(k)[2] = last.hwid
       /\ k.first_used # NullTs /\ k.first_used < now

---------------------------------------------------------------------------
(* In the responses of add_support and delete_support uid is the admin_id  *)
(* of the request and name is its user_id.                                 *)
C14_Step ==
  /\ (last'.op = "delete_support" /\ last'.name = MAIN_ADMIN_ID /\ last = NoResp)
       => (~last'.success /\ supports' = supports)
  /\ supports' # supports
       => /\ last'.op \in {"add_support", "delete_support"}
          /\ last'.uid = MAIN_ADMIN_ID /\ last'.success
          /\ \E u \in SupportInputs \ {MAIN_ADMIN_ID} :
               supports' = supports \cup {u} \/ supports' = supports \ {u}

(* C14: no add_support or delete_support removes the super-admin's         *)
(* authority: delete_support of the super-admin id is rejected and deletes *)
(* nothing, the support list changes only when admin_id is the super-admin *)
(* id, and checkAppPermission of the super-admin id is {true, admin} in    *)
(* every reachable state.                                                  *)
C14_AdminAuthority ==
  /\ [](\A a \in 0 .. (MaxApi + 1) :
          checkAppPermission(MAIN_ADMIN_ID, a) = [hasPermission |-> TRUE, isAdmin |-> TRUE])
  /\ [](MAIN_ADMIN_ID \in supports)
  /\ [][C14_Step]_vars

(* The super-admin asks to delete the super-admin's own support row *)
C14_Witness ==
  /\ last.op = "delete_support" /\ last.uid = MAIN_ADMIN_ID /\ last.name = MAIN_ADMIN_ID
  /\ last.status = 400 /\ last.message = "Cannot delete main admin"
  /\ "u2" \in supports

---------------------------------------------------------------------------
(* C15: when validate_key requests for the same key overlap, the check     *)
(* against the device limit and the append act as one atomic step: the     *)
(* HWIDs accepted since creation or the last reset are never more than the *)
(* device limit and, once no validate_key is in flight, all of them are in *)
(* the stored bound set.  Stated for the keys with a limit of at least 1   *)
(* that were not created under a pending write to a deleted key.           *)
C15_AtomicBinding ==
  \A k \in keys :
    (k.device_limit >= 1 /\ ~hist[k.id].raced)
    => /\ Cardinality(hist[k.id].accepted) <= k.device_limit
       /\ (\A p \in Procs : req[p].op # "validate_key")
            => \A h \in hist[k.id].accepted : Includes(BoundHwids(k), h)

---------------------------------------------------------------------------
(* C16: in every interleaving of delete_app with other delete_app and      *)
(* create_app requests for the same name, a requester who is neither the   *)
(* super-admin nor ever on the support list removes only applications that *)
(* the requester owns.                                                     *)
C16_DeleteOwnAppOnly ==
  [][\A u \in Users \ SupportInputs :
       (applications' # applications /\ last'.op = "delete_app" /\ last'.uid = u)
       => \A a \in applications \ applications' : a.created_by = u]_vars

---------------------------------------------------------------------------
(* Validation while the super-admin issues and bans keys and deletes the   *)
(* application, and time passes                                            *)
ValidateOps == {"create_key", "ban_key"}

NextValidate ==
  \/ Deliver
  \/ Tick
  \/ \E p \in Procs, op \in ValidateOps, a \in ApiInputs :
       \E k \in KeyArg(op), b \in Bodies(op, {Undefined, <<"2">>}) :
         KeyOpBegin(p, op, MAIN_ADMIN_ID, a, k, b)
  \/ \E p \in Procs, n \in AppNames : DeleteAppSelect(p, n, MAIN_ADMIN_ID)
  \/ \E p \in Procs : Write(p, NoBody)
  \/ \E p \in Procs, a \in ApiInputs, k \in KeyInputs : ValidateSelectApp(p, a, k)
  \/ \E p \in Procs, h \in HWIDs : ValidateSelectKey(p, h)
  \/ \E p \in Procs, si \in SysInfos \cup {NULL} : ValidateUpdate(p, si)

SpecValidate == InitKey /\ [][NextValidate]_vars

(* The outcome the fixed order gives for key string, API key and HWID on   *)
(* the current state; "bind" is the accept that stores the HWID            *)
OrderedOutcome(api, key, hwid) ==
  LET rows == {k \in keys : k.key = key /\ k.api = api}
      k == CHOOSE x \in rows : TRUE
      bound == IF k.hwid = NullText THEN <<>> ELSE JSON_parse(k.hwid)
  IN IF \A a \in applications : a.api_key # api THEN "Invalid API"
     ELSE IF rows = {} THEN "Invalid key"
     ELSE IF k.banned THEN "Key banned"
     ELSE IF now > k.expires_at THEN "Key expired"
     ELSE IF \E i \in 1 .. Len(bound) : bound[i] = hwid THEN "Valid key"
     ELSE IF Len(bound) >= k.device_limit THEN "Device limit reached"
     ELSE "bind"

(* The answer of the validate_key step of request p, "bind" when the step  *)
(* goes on to the UPDATE                                                   *)
StepAnswer(p) == IF req'[p] = Idle THEN last'.message ELSE "bind"

C17_Step ==
  \A p \in Procs :
    /\ (req[p] = Idle /\ (req'[p].op = "validate_key" \/
                          (last'.op = "validate_key" /\ req' = req)))
         => /\ db' = db
            /\ IF req'[p] = Idle
                 THEN /\ OrderedOutcome(last'.api, last'.key, "") = "Invalid API"
                      /\ last'.message = "Invalid API" /\ ~last'.success
                 ELSE OrderedOutcome(req'[p].api, req'[p].key, "") # "Invalid API"
    /\ (req[p].op = "validate_key" /\ req[p].pc = "key" /\ req'[p] # req[p])
         => /\ db' = db
            /\ LET hwid == IF req'[p] = Idle THEN last'.hwid
                           ELSE req'[p].hwids[Len(req'[p].hwids)]
                   out == OrderedOutcome(req[p].api, req[p].key, hwid)
               IN /\ AppsByApi(req[p].api) # {} => StepAnswer(p) = out
                  /\ AppsByApi(req[p].api) = {} => StepAnswer(p) = "Invalid key"
                  /\ req'[p] = Idle => (last'.success <=> last'.message = "Valid key")
    /\ (req[p].op = "validate_key" /\ req[p].pc = "update" /\ req'[p] # req[p])
         => /\ last'.success /\ last'.message = "Valid key"
            /\ applications' = applications /\ supports' = supports
            /\ \A k \in keys : (k.key # req[p].key \/ k.api # req[p].api) => k \in keys'
            /\ \A k \in keys' : (k.key # req[p].key \/ k.api # req[p].api) => k \in keys

(* C17: validate_key answers with the first failing step of the order      *)
(* 'Invalid API', 'Invalid key', 'Key banned', 'Key expired' (also for a   *)
(* bound HWID), accept for a bound HWID, 'Device limit reached', accept;   *)
(* only the last case changes stored state, and only the validated key's   *)
(* row.  Each query is judged on the datastore state it reads.             *)
C17_ValidateOrder == [][C17_Step]_vars

(* An expired key is refused to an HWID that is bound to it *)
C17_Witness ==
  /\ last.op = "validate_key" /\ last.message = "Key expired" /\ ~last.success
  /\ \E k \in KeysBy(last.key, last.api) : Includes(BoundHwids(k), last.hwid) /\ ~k.banned

---------------------------------------------------------------------------
(* C18: a validate_key that binds a new HWID changes the stored            *)
(* system-info only when the request provides system_info: the             *)
(* system-info of a row that stays changes, in a validate_key step, only   *)
(* to a value that a request provided.                                     *)
C18_SystemInfoKept ==
  [][\A k \in keys : \A k2 \in keys' :
       (k2.id = k.id /\ last'.op = "validate_key" /\ k2.system_info # k.system_info)
       => k2.system_info \in SysInfos]_vars

---------------------------------------------------------------------------
(* Issuing keys: the super-admin and the owner create keys, each with a    *)
(* prefix that no stored key has, and delete, ban and reset them.          *)
IssuePrefixes == {<<"P", "R", "O">>, <<"V", "I", "P">>}
IssueUsers == {MAIN_ADMIN_ID, "u1"}
IssueOps == {"create_key", "delete_key", "ban_key", "reset_hwid"}

(* The bodies a request of this operation can carry in the current state *)
IssueBodies(op) ==
  IF op = "create_key"
    THEN [prefix : IssuePrefixes \ {k.prefix : k \in keys}, days : DaysInputs,
          device_limit : {Undefined}]
    ELSE {NoBody}

NextIssue ==
  \/ Deliver
  \/ Tick
  \/ \E p \in Procs, op \in IssueOps, u \in IssueUsers, a \in ApiInputs :
       \E k \in KeyArg(op), b \in IssueBodies(op) : KeyOpBegin(p, op, u, a, k, b)
  \/ \E p \in Procs : PermOwner(p)
  \/ \E p \in Procs : \E b \in IssueBodies(req[p].op) : Write(p, b)
  \/ \E p \in Procs, a \in ApiInputs, k \in KeyInputs : ValidateSelectApp(p, a, k)
  \/ \E p \in Procs, h \in HWIDs : ValidateSelectKey(p, h)
  \/ \E p \in Procs, si \in SysInfos : ValidateUpdate(p, si)

SpecIssue == InitKey /\ [][NextIssue]_vars

(* C19: a create_key with all its fields, by a caller with permission, for *)
(* an existing application and with a prefix that no existing key has,     *)
(* succeeds whatever keys exist: it adds exactly one row to the            *)
(* application (not banned, not used, no HWID, first_used unset, expires   *)
(* days after its creation) under a key string that no existing key has,   *)
(* and leaves the other rows as they were.                                 *)
C19_CreateKeySucceeds ==
  [][(last = NoResp /\ last'.op = "create_key" /\ last'.status # 403
        /\ AppsByApi(last'.api) # {})
     => /\ last'.success
        /\ \E new \in keys' \ keys :
             /\ keys' = keys \cup {new}
             /\ new.api = last'.api /\ new.key = last'.key
             /\ ~new.banned /\ ~new.used /\ new.hwid = NullText
             /\ new.first_used = NullTs
             /\ \E d \in DaysInputs : new.expires_at = now + d * MsPerDay
             /\ \A k \in keys : k.key # new.key]_vars

---------------------------------------------------------------------------
(* The start of the process: getPool, the handler's bootstrap test, and a  *)
(* first action (get_supports, one query).                                 *)

(* initializeTables: CREATE TABLE IF NOT EXISTS (three tables) and the     *)
(* seed of the super-admin's support row, run on one client                *)
initializeTables(b) == [b EXCEPT !.schema = TRUE, !.initRuns = @ + 1]

(* if (!isInitialized) { ... await initializeTables(client) ... }, the     *)
(* handler's statement after `await getPool()`                             *)
BootstrapTest(b) == IF ~b.isInitialized THEN initializeTables(b) ELSE b

Seeded(b) == IF b.initRuns > boot.initRuns THEN supports \cup {MAIN_ADMIN_ID} ELSE supports

(* getPool up to its first await: the pool held is returned when           *)
(* isInitialized && pool, else a new Pool replaces it and connects         *)
GetPool(p) ==
  /\ Free(p)
  /\ boot.invocations < MaxInvocations
  /\ LET b0 == [boot EXCEPT !.invocations = @ + 1]
         r == [Idle EXCEPT !.op = "get_supports"]
     IN IF b0.isInitialized /\ b0.pool # 0
          THEN /\ boot' = BootstrapTest(b0)
               /\ supports' = Seeded(BootstrapTest(b0))
               /\ req' = [req EXCEPT ![p] = [r EXCEPT !.pc = "query"]]
          ELSE /\ boot' = [b0 EXCEPT !.pool = b0.pools + 1, !.pools = @ + 1]
               /\ supports' = supports
               /\ req' = [req EXCEPT ![p] = [r EXCEPT !.pc = "connect"]]
  /\ last' = NoResp
  /\ UNCHANGED <<applications, keys, now, nextApi, nextKeyId, hist>>

(* pool.connect() and SELECT 1 answer or throw; when they answer getPool   *)
(* sets isInitialized and returns, and the handler runs its bootstrap test *)
Connect(p, reachable) ==
  /\ At(p, "get_supports", "connect")
  /\ IF reachable
       THEN LET b1 == [boot EXCEPT !.isInitialized = TRUE]
            IN /\ boot' = BootstrapTest(b1)
               /\ supports' = Seeded(BootstrapTest(b1))
               /\ req' = [req EXCEPT ![p].pc = "query"]
               /\ last' = NoResp
       ELSE /\ req' = [req EXCEPT ![p] = Idle]
            /\ last' = jsonResponse(req[p], 500, FALSE, "Server error")
            /\ UNCHANGED <<boot, supports>>
  /\ UNCHANGED <<applications, keys, now, nextApi, nextKeyId, hist>>

(* get_supports: SELECT * FROM supports; without the table the query throws *)
GetSupports(p) ==
  /\ At(p, "get_supports", "query")
  /\ boot' = [boot EXCEPT !.queries = @ + 1]
  /\ req' = [req EXCEPT ![p] = Idle]
  /\ last' = IF boot.schema
               THEN [jsonResponse(req[p], 200, TRUE, "") EXCEPT
                       !.rows = {[user_id |-> u] : u \in supports}]
               ELSE jsonResponse(req[p], 500, FALSE, "Server error")
  /\ UNCHANGED <<applications, keys, supports, now, nextApi, nextKeyId, hist>>

(* A fresh process, on a database with or without the tables *)
InitBoot ==
  /\ applications = {}
  /\ keys = {}
  /\ \E schema \in BOOLEAN :
       /\ boot = Cold(schema)
       /\ supports = IF schema THEN {MAIN_ADMIN_ID} ELSE {}
  /\ now = 0
  /\ nextApi = 1
  /\ nextKeyId = 1
  /\ req = [p \in Procs |-> Idle]
  /\ last = NoResp
  /\ hist = <<>>

NextBoot ==
  \/ Deliver
  \/ \E p \in Procs : GetPool(p)
  \/ \E p \in Procs, reachable \in BOOLEAN : Connect(p, reachable)
  \/ \E p \in Procs : GetSupports(p)

SpecBoot == InitBoot /\ [][NextBoot]_vars

(* C20: in a fresh process initializeTables has run once before the first  *)
(* action issues a query, and it never runs more than once.                *)
C20_BootstrapOnce ==
  /\ boot.initRuns <= 1
  /\ boot.queries > 0 => boot.initRuns = 1

=============================================================================
